---- MODULE Spec2Model ----
(***************************************************************************)
(* A model of the two scripts of ClusterSourceSimulations:                 *)
(*                                                                         *)
(*   CurrentIntegration/STM312currentintegration.py                        *)
(*       class IntegrateCurrent: __init__ (parameter parsing) and          *)
(*       integrate() (window, integral, coverage, time estimate)           *)
(*   ParticleOverlap/overlaparea.py                                        *)
(*       the trial loop: cloud creation, the resolver sweeps and the       *)
(*       area-loss accounting                                              *)
(*                                                                         *)
(* Conventions.                                                            *)
(*   - A Python string is a sequence of tokens: the separator characters   *)
(*     ";", "=", "[", "]", "," are tokens of their own and every maximal   *)
(*     run of other characters is one token (a word).  strip and split act *)
(*     on separators only, so they are modelled exactly.                   *)
(*   - Python floats are modelled by exact numbers: integers where the     *)
(*     code only adds, multiplies and compares them, and normalised        *)
(*     fractions <<n, d>> where it divides.                                *)
(*   - Units are chosen so that all quantities are small integers: the     *)
(*     elementary charge is 1, the noise floor 1e-13 A is 1, and an area   *)
(*     is the square of its diameter (the common factor pi/4 and the       *)
(*     length units cancel in the only place areas are used, the ratio     *)
(*     area_aperture/area_particle).                                       *)
(*   - An attribute that was never assigned, and Python's None, are the    *)
(*     empty sequence <<>>; an assigned value v is <<v>>.                   *)
(*   - Python 3 semantics: ordering a number against None raises TypeError.*)
(***************************************************************************)
EXTENDS Integers, Sequences, FiniteSets, TLC

VARIABLES
    \* ---- IntegrateCurrent ----
    parameter_string,   \* __init__ argument: the token sequence
    data_in,            \* __init__ argument: the measurement, <<time, current>> rows
    string,             \* the items still to be visited by "for item in string"
    self,               \* the attributes of the IntegrateCurrent object
    locals,             \* the local variables of integrate()
    printed,            \* everything print() has written, in order
    error,              \* <<>>, or <<exception, method>> once an exception escaped
    pc,                 \* position of the charge-integration program
    \* ---- overlap simulator ----
    Positions,          \* particle index -> <<x, y>>
    Z,                  \* particle index -> height (an integer array)
    block,              \* index of the sweep block being executed
    i,                  \* index of the next particle the block visits
    sumlosses,          \* per-particle loss of this trial (after accounting)
    olapsim,            \* per-particle neighbour penalty of this trial
    btomsim,            \* per-particle base penalty of this trial
    Area,               \* <<total lost area of this trial>>, <<>> before accounting
    Ratio,              \* <<coverage ratio of this trial>>, <<>> before accounting
    trial,              \* number of the current trial (x of "for x in range(5)")
    opc,                \* position of the overlap simulator
    visits,             \* history: the particle indices visited since the cloud
                        \*          was created, in order
    prevZ,              \* history: Z before the latest visit
    adjusted,           \* history: particles a visit has assigned a height to
    synced              \* history: particles a visit has first set to its own
                        \*          height (the branch of line 59)

icvars == <<parameter_string, data_in, string, self, locals, printed, error, pc>>
ovvars == <<Positions, Z, block, i, sumlosses, olapsim, btomsim, Area, Ratio,
            trial, opc, visits, prevZ, adjusted, synced>>
vars == <<icvars, ovvars>>

(***************************************************************************)
(* Bounds of the model.                                                    *)
(***************************************************************************)
MaxItems == 2       \* items of a parameter string in SpecParse
MaxSamples == 3     \* rows of a measurement
NParticles == 5     \* particles of a cloud (N = 2000 in the source)
NTrials == 2        \* trials per run (range(5) per loading in the source)

(***************************************************************************)
(* Exact arithmetic standing for Python floats.                            *)
(***************************************************************************)
Abs(n) == IF n < 0 THEN -n ELSE n

RECURSIVE Gcd(_, _)
Gcd(a, b) == IF b = 0 THEN a ELSE Gcd(b, a % b)

\* The fraction n/d (d # 0) in lowest terms with a positive denominator.
Rat(n, d) ==
    LET g == Gcd(Abs(n), Abs(d))
        s == IF d < 0 THEN -1 ELSE 1
    IN  <<(s * n) \div g, (s * d) \div g>>

RInt(n) == <<n, 1>>
RMul(a, b) == Rat(a[1] * b[1], a[2] * b[2])
RDiv(a, b) == Rat(a[1] * b[2], a[2] * b[1])
RSub(a, b) == Rat(a[1] * b[2] - b[1] * a[2], a[2] * b[2])
RLt(a, b) == a[1] * b[2] < b[1] * a[2]
RGeq(a, b) == a[1] * b[2] >= b[1] * a[2]

(***************************************************************************)
(* str.strip, str.split and the conversions of words.                      *)
(***************************************************************************)
RECURSIVE LStrip(_, _)
LStrip(s, chars) ==
    IF s # <<>> /\ Head(s) \in chars THEN LStrip(Tail(s), chars) ELSE s

RECURSIVE RStrip(_, _)
RStrip(s, chars) ==
    IF s # <<>> /\ s[Len(s)] \in chars
    THEN RStrip(SubSeq(s, 1, Len(s) - 1), chars)
    ELSE s

\* s.strip(chars)
Strip(s, chars) == RStrip(LStrip(s, chars), chars)

\* s.split(sep): the pieces between the separators; [''] for the empty string.
RECURSIVE Split(_, _)
Split(s, sep) ==
    IF \A k \in 1..Len(s) : s[k] # sep
    THEN <<s>>
    ELSE LET k == CHOOSE k \in 1..Len(s) :
                     s[k] = sep /\ \A j \in 1..(k - 1) : s[j] # sep
         IN  <<SubSeq(s, 1, k - 1)>> \o Split(SubSeq(s, k + 1, Len(s)), sep)

\* sep.join(pieces): the inverse used to build the input strings.
RECURSIVE Join(_, _)
Join(pieces, sep) ==
    IF pieces = <<>> THEN <<>>
    ELSE IF Len(pieces) = 1 THEN pieces[1]
    ELSE pieces[1] \o <<sep>> \o Join(Tail(pieces), sep)

\* The words float() accepts, with their values.
Numerals == {"-2", "-1", "0", "1", "2", "5", "10", "20"}
NumeralValue(w) ==
    CASE w = "-2" -> -2 [] w = "-1" -> -1 [] w = "0" -> 0 [] w = "1" -> 1
      [] w = "2" -> 2 [] w = "5" -> 5 [] w = "10" -> 10 [] w = "20" -> 20

\* float(value) raises ValueError unless value is one numeral.
CanFloat(value) == Len(value) = 1 /\ value[1] \in Numerals
Float(value) == NumeralValue(value[1])

\* word.upper() and the first character of it, for the words of the model.
Upper(w) ==
    CASE w = "True" -> "TRUE" [] w = "False" -> "FALSE" [] w = "on" -> "ON"
      [] w = "yes" -> "YES" [] OTHER -> w
FirstChar(w) ==
    CASE w \in {"TRUE", "True"} -> "T" [] w \in {"FALSE", "False"} -> "F"
      [] w \in {"ON", "on"} -> "O" [] w \in {"YES", "yes"} -> "Y"
      [] OTHER -> "0"

\* parse_bool_string(string); string[0] raises IndexError on the empty string.
CanParseBool(value) == value # <<>>
parse_bool_string(value) ==
    \/ FirstChar(Upper(value[1])) = "T"
    \/ (Len(value) = 1 /\ Upper(value[1]) = "ON")
    \/ FirstChar(Upper(value[1])) = "Y"

(***************************************************************************)
(* IntegrateCurrent.__init__                                               *)
(***************************************************************************)
\* np.array([5, 10, 15, 20, 25, 30, 40, 50, 75, 100, 150, 200, 300])
DefaultTargets == <<5, 10, 15, 20, 25, 30, 40, 50, 75, 100, 150, 200, 300>>

\* The attributes after lines 37-42 (plot is left at its default, True).
InitialSelf ==
    [debugging |-> FALSE, model |-> "None", target |-> <<>>, time |-> <<>>,
     plot |-> <<TRUE>>, leak_current |-> <<>>, area_particle |-> <<>>,
     area_aperture |-> <<>>, sa_density |-> <<>>, data |-> <<>>,
     dep_rate |-> <<>>, present_coverage |-> <<>>]

NoLocals ==
    [integral |-> <<>>, dep_rate |-> <<>>, present_coverage |-> <<>>,
     target_coverage |-> <<>>, target_number |-> <<>>, time_left |-> <<>>,
     branch |-> "none"]

Msg(text, param) == [msg |-> text, param |-> param]

\* The outcome of a piece of code: the exception that escaped ("" for none),
\* the attributes it leaves and what it printed.
Raised(s, exc) == [exc |-> exc, self |-> s, out |-> <<>>]
Ok(s, out) == [exc |-> "", self |-> s, out |-> out]

\* Variant of CanUnpack: only the first two pieces are looked at.
CanUnpack_Lenient(item) == Len(Split(item, "=")) >= 2

\* param, value = item.split('=')  raises ValueError unless there are two pieces.
CanUnpack(item) == Len(Split(item, "=")) = 2

\* [float(val) for val in value.split(',')]
AllFloat(pieces) == \A k \in 1..Len(pieces) : CanFloat(pieces[k])
FloatList(pieces) == [k \in 1..Len(pieces) |-> Float(pieces[k])]

\* The chain of recognised keys: the body of "for item in string" for a pair
\* that unpacked (lines 45-71).
PairEffect(s, param, value) ==
    IF param = <<"LEAK_CURRENT">> THEN
        IF CanFloat(value)
        THEN Ok([s EXCEPT !.leak_current = <<Float(value)>>], <<>>)
        ELSE Raised(s, "ValueError")
    ELSE IF param = <<"PARTICLE_DIAMETER">> THEN
        IF CanFloat(value)
        THEN Ok([s EXCEPT !.area_particle = <<Float(value) * Float(value)>>], <<>>)
        ELSE Raised(s, "ValueError")
    ELSE IF param = <<"APERTURE_DIAMETER">> THEN
        IF CanFloat(value)
        THEN Ok([s EXCEPT !.area_aperture = <<Float(value) * Float(value)>>], <<>>)
        ELSE Raised(s, "ValueError")
    ELSE IF param = <<"DEBUG">> THEN
        IF CanParseBool(value)
        THEN Ok([s EXCEPT !.debugging = parse_bool_string(value)], <<>>)
        ELSE Raised(s, "IndexError")
    ELSE IF param = <<"MODEL">> THEN
        IF value \in {<<"NP">>, <<"SA">>}
        THEN Ok([s EXCEPT !.model = value[1]], <<>>)
        ELSE Ok(s, <<Msg("MODEL must have either NP or SA", <<>>)>>)
    ELSE IF param = <<"SA_DENSITY">> THEN
        IF CanFloat(value)
        THEN Ok([s EXCEPT !.sa_density = <<Float(value)>>], <<>>)
        ELSE Raised(s, "ValueError")
    ELSE IF param = <<"TARGET">> THEN
        IF CanFloat(value)
        THEN Ok([s EXCEPT !.target =
                    IF ~(Float(value) > 0) THEN DefaultTargets
                    ELSE <<Float(value)>>], <<>>)
        ELSE Raised(s, "ValueError")
    ELSE IF param = <<"TIME">> THEN
        LET stripped == Strip(value, {"[", "]"})
        IN  IF stripped = <<>> THEN Ok(s, <<>>)
            ELSE IF AllFloat(Split(stripped, ","))
            THEN Ok([s EXCEPT !.time = FloatList(Split(stripped, ","))], <<>>)
            ELSE Raised(s, "ValueError")
    ELSE Ok(s, <<Msg("par/val pair not recognized", param)>>)

\* One iteration of "for item in string" (lines 43-71).
ItemEffect(s, item) ==
    IF CanUnpack(item)
    THEN PairEffect(s, Split(item, "=")[1], Split(item, "=")[2])
    ELSE Raised(s, "ValueError")

\* Lines 36-42: split the parameter string and set the defaults.
Construct_Begin ==
    /\ pc = "new"
    /\ string' = Split(Strip(parameter_string, {";"}), ";")
    /\ self' = InitialSelf
    /\ pc' = "parsing"
    /\ UNCHANGED <<parameter_string, data_in, locals, printed, error, ovvars>>

\* Lines 43-71: the next item of the loop.
ParseItem ==
    /\ pc = "parsing"
    /\ string # <<>>
    /\ LET r == ItemEffect(self, Head(string))
       IN  IF r.exc # ""
           THEN /\ error' = <<r.exc, "__init__">>
                /\ pc' = "raised"
                /\ UNCHANGED <<string, self, printed>>
           ELSE /\ self' = r.self
                /\ printed' = printed \o r.out
                /\ string' = Tail(string)
                /\ UNCHANGED <<error, pc>>
    /\ UNCHANGED <<parameter_string, data_in, locals, ovvars>>

\* Lines 73-76: the loop is over; store the data.
Construct_End ==
    /\ pc = "parsing"
    /\ string = <<>>
    /\ self' = [self EXCEPT !.data = <<data_in>>]
    /\ pc' = "constructed"
    /\ UNCHANGED <<parameter_string, data_in, string, locals, printed, error, ovvars>>

(***************************************************************************)
(* IntegrateCurrent.integrate                                              *)
(***************************************************************************)
ElemCharge == 1     \* e = 1.602e-19, the unit of charge of the model
NoiseFloor == 1     \* 1e-13, the unit of current of the model
RateSamples == 100  \* [-100:]

RECURSIVE SumSeq(_)
SumSeq(q) == IF q = <<>> THEN 0 ELSE Head(q) + SumSeq(Tail(q))

\* rows[np.where(rows[:, 0] >= t0)], then rows[np.where(rows[:, 0] <= t1)]
RowsFrom(rows, t0) == SelectSeq(rows, LAMBDA r : r[1] >= t0)
RowsUpTo(rows, t1) == SelectSeq(rows, LAMBDA r : r[1] <= t1)
Window(rows, time) == RowsUpTo(RowsFrom(rows, time[1]), time[2])

\* Variant of net_current: the absolute value is not taken.
net_current_Signed(rows, leak) == [k \in 1..Len(rows) |-> rows[k][2] + leak]

\* np.abs(self.data[:, 1] + leak_current)
net_current(rows, leak) == [k \in 1..Len(rows) |-> Abs(rows[k][2] + leak)]

\* np.sum(net_current[1:] * np.diff(self.data[:, 0])) / e
ChargeTerms(rows, leak) ==
    [k \in 1..(Len(rows) - 1) |->
        net_current(rows, leak)[k + 1] * (rows[k + 1][1] - rows[k][1])]
Integral(rows, leak) == RDiv(RInt(SumSeq(ChargeTerms(rows, leak))), RInt(ElemCharge))

\* q[-n:]
LastN(q, n) == IF Len(q) <= n THEN q ELSE SubSeq(q, Len(q) - n + 1, Len(q))

\* np.average(net_current[np.where(net_current > 1e-13)][-100:]) / e ;
\* the average of no sample is nan, written <<>>.
DepRate(rows, leak) ==
    LET q == LastN(SelectSeq(net_current(rows, leak), LAMBDA c : c > NoiseFloor),
                   RateSamples)
    IN  IF q = <<>> THEN <<>>
        ELSE <<RDiv(RDiv(RInt(SumSeq(q)), RInt(Len(q))), RInt(ElemCharge))>>

\* convert_number_to_coverage: [exc, value, out]; value <<>> is None.
convert_number_to_coverage(s, number) ==
    IF s.model = "None" THEN
        [exc |-> "", value |-> <<>>, out |-> <<Msg("Model not chosen!", <<>>)>>]
    ELSE IF s.model = "SA" THEN
        [exc |-> "", value |-> <<>>,
         out |-> <<Msg("Single atoms model not implemented yet!", <<>>)>>]
    ELSE IF s.area_aperture = <<>> \/ s.area_particle = <<>> THEN
        [exc |-> "AttributeError", value |-> <<>>, out |-> <<>>]
    ELSE
        [exc |-> "",
         value |-> <<RMul(RDiv(RMul(number, RInt(100)), RInt(s.area_aperture[1])),
                          RInt(s.area_particle[1]))>>,
         out |-> <<>>]

\* convert_coverage_to_number: [exc, value, out]; value <<>> is None.
convert_coverage_to_number(s, coverage) ==
    IF s.model = "None" THEN
        [exc |-> "", value |-> <<>>, out |-> <<Msg("Model not chosen!", <<>>)>>]
    ELSE IF s.model = "SA" THEN
        [exc |-> "", value |-> <<>>,
         out |-> <<Msg("Single atoms model not implemented yet!", <<>>)>>]
    ELSE IF s.area_aperture = <<>> \/ s.area_particle = <<>> THEN
        [exc |-> "AttributeError", value |-> <<>>, out |-> <<>>]
    ELSE
        [exc |-> "",
         value |-> <<RDiv(RMul(RDiv(coverage, RInt(100)), RInt(s.area_aperture[1])),
                          RInt(s.area_particle[1]))>>,
         out |-> <<>>]

\* Variant of Qualifies: a target equal to the present coverage is passed over.
Qualifies_Strict(coverage, present) ==
    RInt(coverage)[1] * present[2] > present[1] * RInt(coverage)[2]

\* coverage >= present_coverage (line 124)
Qualifies(coverage, present) == RGeq(RInt(coverage), present)

\* The loop of lines 123-128 from its k-th element on; tc is target_coverage
\* so far (<<>> while unbound).
RECURSIVE TargetLoop(_, _, _, _)
TargetLoop(target, present, k, tc) ==
    IF k > Len(target) THEN tc
    ELSE IF Qualifies(target[k], present) THEN <<target[k]>>
    ELSE TargetLoop(target, present, k + 1, <<target[Len(target)]>>)

\* Variant of Exceeded: a count equal to the goal counts as exceeded.
Exceeded_OrMet(target_number, integral) ==
    target_number[1] * integral[2] <= integral[1] * target_number[2]

\* target_number < integral (line 132)
Exceeded(target_number, integral) == RLt(target_number, integral)

\* What integrate() leaves behind: exc is the exception that escaped it, "" when
\* it returned.
Outcome(exc, s, loc, out) == [exc |-> exc, self |-> s, locals |-> loc, out |-> out]

\* Lines 121-145, entered with the integral and the rate computed.
Estimate(s, loc, out) ==
    LET present == convert_number_to_coverage(s, loc.integral[1])
        loc1 == [loc EXCEPT !.present_coverage = present.value]
        out1 == out \o present.out
    IN  IF present.exc # "" THEN Outcome(present.exc, s, loc, out1)
        ELSE IF s.target = <<>> \/ present.value = <<>>
        THEN Outcome("TypeError", s, loc1, out1)
        ELSE
        LET tc == TargetLoop(s.target, present.value[1], 1, <<>>)
            goal == convert_coverage_to_number(s, RInt(tc[1]))
            loc2 == [loc1 EXCEPT !.target_coverage = tc,
                                 !.target_number = goal.value]
            out2 == out1 \o goal.out
        IN  IF goal.exc # "" THEN Outcome(goal.exc, s, loc2, out2)
            ELSE IF Exceeded(goal.value[1], loc.integral[1])
            THEN Outcome("", s, [loc2 EXCEPT !.branch = "exceeded"],
                       out2 \o <<Msg("Target coverage already exceeded", <<>>),
                                 Msg("Number of clusters", <<>>)>>)
            ELSE IF loc.dep_rate = <<>>
            THEN Outcome("ValueError", s, [loc2 EXCEPT !.branch = "estimate"], out2)
            ELSE Outcome("", s,
                       [loc2 EXCEPT !.branch = "estimate",
                                    !.time_left =
                                        <<RDiv(RSub(goal.value[1], loc.integral[1]),
                                               loc.dep_rate[1])>>],
                       out2 \o <<Msg("Time until coverage", <<>>)>>)

\* The whole of integrate(): [exc, self, locals, out].
IntegrateRun(s) ==
    IF s.leak_current = <<>> THEN Outcome("AttributeError", s, NoLocals, <<>>)
    ELSE IF Len(s.time) = 1
    THEN Outcome("IndexError", [s EXCEPT !.data = <<RowsFrom(s.data[1], s.time[1])>>],
               NoLocals, <<>>)
    ELSE
    LET leak == s.leak_current[1]
        rows == IF s.time # <<>> THEN Window(s.data[1], s.time) ELSE s.data[1]
        s1 == [s EXCEPT !.data = <<rows>>]
        loc == [NoLocals EXCEPT !.integral = <<Integral(rows, leak)>>,
                                !.dep_rate = DepRate(rows, leak)]
    IN  Estimate(s1, loc, <<Msg("integral", <<>>)>>)

Integrate ==
    /\ pc = "constructed"
    /\ LET r == IntegrateRun(self)
       IN  /\ self' = r.self
           /\ locals' = r.locals
           /\ printed' = printed \o r.out
           /\ error' = IF r.exc = "" THEN <<>> ELSE <<r.exc, "integrate">>
           /\ pc' = IF r.exc = "" THEN "done" ELSE "raised"
    /\ UNCHANGED <<parameter_string, data_in, string, ovvars>>

NextIC == Construct_Begin \/ ParseItem \/ Construct_End \/ Integrate

(***************************************************************************)
(* Inputs of the charge-integration program.                               *)
(***************************************************************************)
Item(key, value) == <<key, "=">> \o value

\* Sequences over S of length lo..hi.
SeqsOf(S, lo, hi) == UNION {[1..n -> S] : n \in lo..hi}

\* The items of SpecParse: every documented key, an undocumented one, values
\* the conversions reject, and items that are no KEY=VALUE pair.
ParseItems ==
    { Item("MODEL", <<"NP">>), Item("MODEL", <<"SA">>), Item("MODEL", <<"XX">>),
      Item("TARGET", <<"10">>), Item("TARGET", <<"0">>), Item("TARGET", <<"abc">>),
      Item("TIME", <<"[", "0", ",", "2", "]">>), Item("TIME", <<"[", "]">>),
      Item("TIME", <<"[", "1", "]">>),
      Item("LEAK_CURRENT", <<"1">>), Item("PARTICLE_DIAMETER", <<"1">>),
      Item("APERTURE_DIAMETER", <<"10">>), Item("SA_DENSITY", <<"1">>),
      Item("DEBUG", <<"True">>), Item("DEBUG", <<"on">>), Item("DEBUG", <<"False">>),
      Item("DEBUG", <<>>), Item("PLOT", <<"True">>), Item("FOO", <<"1">>),
      <<>>, <<"MODEL">>, <<"TARGET", "=", "1", "=", "2">> }

\* Parameter strings of up to MaxItems items, and those of at most one item
\* followed by a semicolon.
ParseStrings ==
    {Join(its, ";") : its \in SeqsOf(ParseItems, 0, MaxItems)}
    \cup {Join(its, ";") \o <<";">> : its \in SeqsOf(ParseItems, 0, 1)}

ParseData == <<<<0, 3>>, <<1, 3>>, <<2, 3>>>>

\* Measurements: up to MaxSamples rows with non-decreasing time stamps.
TimeStamps == {0, 1, 2}
Currents == {-2, 0, 3}
Measurements ==
    {m \in SeqsOf(TimeStamps \X Currents, 1, MaxSamples) :
        \A k \in 1..(Len(m) - 1) : m[k][1] <= m[k + 1][1]}

\* The example invocation's parameter string (lines 157-164) with the leak
\* current and the time window varied.
WindowItems ==
    {<<>>} \cup
    {<<Item("TIME", <<"[", a, ",", b, "]">>)>> :
        <<a, b>> \in {<<"0", "1">>, <<"1", "2">>, <<"1", "1">>, <<"0", "2">>, <<"2", "0">>}}
WindowStrings ==
    {Join(<<Item("TARGET", <<"10">>), Item("MODEL", <<"NP">>),
            Item("SA_DENSITY", <<"1">>), Item("LEAK_CURRENT", <<l>>),
            Item("PARTICLE_DIAMETER", <<"1">>),
            Item("APERTURE_DIAMETER", <<"10">>)>> \o w, ";") :
        l \in {"0", "1", "-2"}, w \in WindowItems}

\* The same string with the model, the target and the particle size varied.
ModelItems == {<<>>} \cup {<<Item("MODEL", <<m>>)>> : m \in {"NP", "SA", "XX"}}
TargetStrings ==
    {Join(<<Item("TARGET", <<t>>)>> \o m \o
          <<Item("LEAK_CURRENT", <<"0">>), Item("PARTICLE_DIAMETER", <<d>>),
            Item("APERTURE_DIAMETER", <<"10">>)>>, ";") :
        t \in {"0", "5", "10"}, m \in ModelItems, d \in {"1", "10"}}

\* The overlap simulator is not running.
OverlapIdle ==
    /\ Positions = <<>> /\ Z = <<>> /\ block = 0 /\ i = 0
    /\ sumlosses = <<>> /\ olapsim = <<>> /\ btomsim = <<>>
    /\ Area = <<>> /\ Ratio = <<>> /\ trial = 0 /\ opc = "idle"
    /\ visits = <<>> /\ prevZ = <<>> /\ adjusted = {} /\ synced = {}

\* IntegrateCurrent(parameter_string, data) is about to be called.
InitIC(strings, measurements) ==
    /\ parameter_string \in strings
    /\ data_in \in measurements
    /\ string = <<>>
    /\ self = InitialSelf
    /\ locals = NoLocals
    /\ printed = <<>>
    /\ error = <<>>
    /\ pc = "new"
    /\ OverlapIdle

InitParse == InitIC(ParseStrings, {ParseData})
InitWindow == InitIC(WindowStrings, Measurements)
InitTarget == InitIC(TargetStrings, Measurements)

SpecParse == InitParse /\ [][NextIC]_vars
SpecWindow == InitWindow /\ [][NextIC]_vars
SpecTarget == InitTarget /\ [][NextIC]_vars

(***************************************************************************)
(* Claims about IntegrateCurrent.                                          *)
(***************************************************************************)
ReturnedFromInit == pc \in {"constructed", "done"} \/ (pc = "raised" /\ error[2] = "integrate")
RaisedInInit == pc = "raised" /\ error[2] = "__init__"
RaisedInIntegrate == pc = "raised" /\ error[2] = "integrate"

\* C1: once integrate() has chosen the target of the time estimate, that target
\* is the first element of the target list that is >= the present coverage,
\* and the last element when no element is >= the present coverage.
C1_FirstTargetAtOrAbove ==
    locals.target_coverage # <<>> =>
        LET T == self.target
            p == locals.present_coverage[1]
            tc == locals.target_coverage[1]
            AtOrAbove(k) == T[k] * p[2] >= p[1]
        IN  \/ \E k \in 1..Len(T) :
                  /\ AtOrAbove(k)
                  /\ \A j \in 1..(k - 1) : ~AtOrAbove(j)
                  /\ tc = T[k]
            \/ /\ \A k \in 1..Len(T) : ~AtOrAbove(k)
               /\ tc = T[Len(T)]

\* C1 witness: the default list was walked to its end (present coverage above
\* 300 %) and the last element was chosen.
C1_Witness ==
    /\ pc = "done"
    /\ self.target = DefaultTargets
    /\ locals.present_coverage[1][1] > 300 * locals.present_coverage[1][2]
    /\ locals.target_coverage = <<300>>

\* C2 as claimed: the run reports "already exceeded" whenever count >= goal, and
\* takes the remaining-time branch only when count < goal.
C2_ExceededWhenCountMeetsGoal ==
    locals.branch # "none" =>
        (locals.branch = "exceeded" <=>
            RGeq(locals.integral[1], locals.target_number[1]))

\* C2 as amended: the run reports "already exceeded", computing no remaining
\* time, exactly when count > goal; when count <= goal (count == goal included)
\* it takes the remaining-time branch, whose remaining time is (goal - count)
\* divided by the deposition rate.
C2_ExceededOnlyWhenCountAboveGoal ==
    locals.branch # "none" =>
        /\ locals.branch = "exceeded" <=>
               RLt(locals.target_number[1], locals.integral[1])
        /\ locals.branch = "exceeded" => locals.time_left = <<>>
        /\ locals.time_left # <<>> =>
               /\ locals.branch = "estimate"
               /\ RGeq(locals.target_number[1], locals.integral[1])
               /\ locals.time_left[1] =
                      RDiv(RSub(locals.target_number[1], locals.integral[1]),
                           locals.dep_rate[1])

\* C2 witness: the count equals the goal and a remaining time (zero) was computed.
C2_Witness ==
    /\ pc = "done"
    /\ locals.branch = "estimate"
    /\ locals.target_number = locals.integral
    /\ locals.time_left = <<RInt(0)>>

\* The nine keys the class documents or the specification lists.
DocumentedKeys ==
    {"MODEL", "SA_DENSITY", "PARTICLE_DIAMETER", "APERTURE_DIAMETER", "TARGET",
     "TIME", "LEAK_CURRENT", "DEBUG", "PLOT"}

\* C3 as claimed: a pair whose key is one of the nine documented keys is never
\* reported as unrecognized.
C3_NineKeysRecognized ==
    \A k \in 1..Len(printed) :
        printed[k].msg = "par/val pair not recognized" =>
            ~(Len(printed[k].param) = 1 /\ printed[k].param[1] \in DocumentedKeys)

\* What the constructor can use: an item with exactly one "=" whose value the
\* conversion of its key accepts.
NumericKeys ==
    {"LEAK_CURRENT", "PARTICLE_DIAMETER", "APERTURE_DIAMETER", "SA_DENSITY", "TARGET"}
CountOf(item, tok) == Cardinality({k \in 1..Len(item) : item[k] = tok})
KeyOf(item) == SubSeq(item, 1, (CHOOSE k \in 1..Len(item) : item[k] = "=") - 1)
ValueOf(item) ==
    SubSeq(item, (CHOOSE k \in 1..Len(item) : item[k] = "=") + 1, Len(item))
TimeListOk(value) ==
    LET inner == Strip(value, {"[", "]"})
    IN  inner = <<>> \/
        \A piece \in {Split(inner, ",")[k] : k \in 1..Len(Split(inner, ","))} :
            Len(piece) = 1 /\ piece[1] \in Numerals
Usable(item) ==
    /\ CountOf(item, "=") = 1
    /\ (Len(KeyOf(item)) = 1 /\ KeyOf(item)[1] \in NumericKeys) =>
           (Len(ValueOf(item)) = 1 /\ ValueOf(item)[1] \in Numerals)
    /\ KeyOf(item) = <<"DEBUG">> => ValueOf(item) # <<>>
    /\ KeyOf(item) = <<"TIME">> => TimeListOk(ValueOf(item))
ItemsOf(str) == Split(Strip(str, {";"}), ";")

\* C4 as claimed: no parameter string makes the constructor raise.
C4_ConstructorNeverRaises == ~RaisedInInit

\* C4 as amended: the constructor runs to completion exactly when every item of
\* the parameter string has exactly one "=" and a value the conversion of its
\* key accepts (unrecognized keys are printed and skipped); it raises at the
\* first item that has no "=" (the single empty item of an empty string
\* included), more than one "=", or a value its key's conversion rejects.
C4_RaisesExactlyAtUnusableItem ==
    /\ RaisedInInit =>
           /\ ~Usable(Head(string))
           /\ \E n \in 1..Len(ItemsOf(parameter_string)) :
                  /\ string = SubSeq(ItemsOf(parameter_string), n,
                                     Len(ItemsOf(parameter_string)))
                  /\ \A k \in 1..(n - 1) : Usable(ItemsOf(parameter_string)[k])
    /\ ReturnedFromInit =>
           \A k \in 1..Len(ItemsOf(parameter_string)) :
               Usable(ItemsOf(parameter_string)[k])

\* C4 witness: the constructor raised ValueError at an item without "=" after
\* printing and skipping an unrecognized pair.
C4_Witness ==
    /\ RaisedInInit
    /\ error[1] = "ValueError"
    /\ CountOf(Head(string), "=") = 0
    /\ Len(printed) = 1
    /\ printed[1].msg = "par/val pair not recognized"

\* C5 as claimed: with the single-atom model, an unrecognized MODEL value or no
\* MODEL, the constructor completes and a following integrate() runs to its end
\* without an exception.
C5_NullModelRunsToEnd ==
    (self.model # "NP" /\ pc \in {"done", "raised"}) =>
        /\ ~RaisedInInit
        /\ ~RaisedInIntegrate

\* C9: with a TIME window [t0, t1] integrate() keeps exactly the rows with
\* t0 <= time <= t1 and its integral is never greater than the integral over
\* the full series.
C9_WindowNeverIncreasesIntegral ==
    (locals.integral # <<>> /\ Len(self.time) = 2) =>
        /\ self.data[1] =
               SelectSeq(data_in,
                         LAMBDA r : self.time[1] <= r[1] /\ r[1] <= self.time[2])
        /\ RGeq(Integral(data_in, self.leak_current[1]), locals.integral[1])

\* C9 witness: the window dropped rows and the windowed integral is positive and
\* strictly below the integral of the full series.
C9_Witness ==
    /\ locals.integral # <<>>
    /\ Len(self.time) = 2
    /\ Len(self.data[1]) < Len(data_in)
    /\ RLt(RInt(0), locals.integral[1])
    /\ RLt(locals.integral[1], Integral(data_in, self.leak_current[1]))

(***************************************************************************)
(* The overlap simulator: one trial of the loop "for x in range(5)".       *)
(* Lengths are in the script's unit (Psize*10 = 38 is the particle         *)
(* diameter); particles sit on integer coordinates, so that every squared  *)
(* distance is an integer.  Distance1 is kept squared: "Distance1 < r" is  *)
(* "squared distance < r*r", and sqrt((Psize*10)**2 - Distance1[g]**2)     *)
(* takes the squared distance as it is.                                    *)
(* Areas are in tenths (8.4 is 84, 12 is 120).                             *)
(* The model starts at the trial loop (line 39): what precedes it computes *)
(* the loadings and coverages, which only size the domain the positions    *)
(* are drawn from.  Line 16 of the script is the bare name "test", which   *)
(* raises NameError when the script is run as it stands.                   *)
(* The prints of lines 154-156 and the plotting lists posx/posy are left   *)
(* out: nothing reads them.                                                *)
(***************************************************************************)
Psize10 == 38           \* Psize*10
\* Variant of ContactRadius: contact is detected up to the particle diameter.
ContactRadius_Wide == Psize10
ContactRadius == 35     \* np.where(Distance1 < 35)
LossRadius == 43        \* np.where(Distance1 < Psize*10+5)
HeightFloor == 5        \* if Z[i] < 5
BasePenalty == 120      \* btom.append(12)
NeighbourPenalty == 84  \* olap.append(8.4)
\* SApar = 4*math.pi*(3.8/2)**2 = 45.3645..., rounded up to the next tenth: every
\* loss is a whole number of tenths, so "sumloss >= SApar" is unchanged.
SApar == 454
\* SAtotal = 2000*SApar, 2000 being the number of particles N.
SAtotal == NParticles * SApar

\* Variant of SweepBlocks: one copy fewer.
SweepBlocks_Seven == <<53, 63, 73, 83, 93, 103, 113>>

\* The first line of each copy of the sweep block.
SweepBlocks == <<53, 63, 73, 83, 93, 103, 113, 123>>

\* Where the particles of the model can sit (np.random.rand(2,N)*Gsize draws
\* any place of the domain): a centre and three places around it, chosen so
\* that the clouds over them hold contacts at equal and at different heights,
\* pairs out of contact, a rise of exactly 14 and a capped loss.
PointSet == {<<30, 20>>, <<60, 38>>, <<0, 10>>, <<61, 0>>}

Particles == 1..NParticles

\* The integer part of the square root, which is what an integer array keeps of
\* height + np.sqrt(m) for an integer height.
ISqrt(m) == CHOOSE r \in 0..Psize10 : r * r <= m /\ (r + 1) * (r + 1) > m

Sq(a) == a * a

\* Distance1**2 as computed for particle p from the heights Zc.
Distance1Sq(pos, Zc, p) ==
    [g \in Particles |->
        Sq(pos[p][1] - pos[g][1]) + Sq(pos[p][2] - pos[g][2]) + Sq(Zc[p] - Zc[g])]

\* index[0] of np.where(Distance1 < r): the indices in ascending order.
RECURSIVE Ascending(_)
Ascending(S) ==
    IF S = {} THEN <<>>
    ELSE LET m == CHOOSE a \in S : \A b \in S : a <= b
         IN  <<m>> \o Ascending(S \ {m})
Within(D2, r) == Ascending({g \in Particles : D2[g] < r * r})

\* Variant of Stack: line 62 is indented under "if Z[g]!=Z[i]".
Stack_OnlyDiffering(pos, st, p, g) ==
    IF g = p \/ st.Z[g] = st.Z[p] THEN st
    ELSE LET Z1 == [st.Z EXCEPT ![g] = st.Z[p]]
             D1 == [h \in DOMAIN st.D2 |->
                       (pos[p][1] - pos[h][1]) * (pos[p][1] - pos[h][1])
                       + (pos[p][2] - pos[h][2]) * (pos[p][2] - pos[h][2])
                       + (Z1[p] - Z1[h]) * (Z1[p] - Z1[h])]
         IN  [Z |-> [Z1 EXCEPT ![g] = Z1[g] + ISqrt(Psize10 * Psize10 - D1[g])],
              D2 |-> D1,
              adjusted |-> st.adjusted \cup {g},
              synced |-> st.synced \cup {g}]

\* Lines 58-62 for one g: the loop state is the heights, Distance1**2 and the
\* history of the particles that went through line 60.
Stack(pos, st, p, g) ==
    IF g = p THEN st
    ELSE LET differs == st.Z[g] # st.Z[p]
             Z1 == IF differs THEN [st.Z EXCEPT ![g] = st.Z[p]] ELSE st.Z
             D1 == IF differs THEN Distance1Sq(pos, Z1, p) ELSE st.D2
         IN  [Z |-> [Z1 EXCEPT ![g] = Z1[g] + ISqrt(Psize10 * Psize10 - D1[g])],
              D2 |-> D1,
              adjusted |-> st.adjusted \cup {g},
              synced |-> IF differs THEN st.synced \cup {g} ELSE st.synced]

\* for g in index[0], from its k-th element on.
RECURSIVE StackLoop(_, _, _, _, _)
StackLoop(pos, st, p, index, k) ==
    IF k > Len(index) THEN st
    ELSE StackLoop(pos, Stack(pos, st, p, index[k]), p, index, k + 1)

\* One iteration of "for i, a in enumerate(Positions[0])" of a sweep block.
VisitEffect(pos, Zc, p, adj, syn) ==
    LET D2 == Distance1Sq(pos, Zc, p)
    IN  StackLoop(pos, [Z |-> Zc, D2 |-> D2, adjusted |-> adj, synced |-> syn],
                  p, Within(D2, ContactRadius), 1)

\* Lines 148-168 for particle p.
olapsum(pos, Zc, p) ==
    NeighbourPenalty *
        Cardinality({b \in Particles :
                        b # p /\ Distance1Sq(pos, Zc, p)[b] < LossRadius * LossRadius})
btomsum(Zc, p) == IF Zc[p] < HeightFloor THEN BasePenalty ELSE 0
\* Variant of Capped: the cap of lines 167-168 is missing.
Uncapped(sumloss) == sumloss
Capped(sumloss) == IF sumloss >= SApar THEN SApar ELSE sumloss

\* Nothing of a cloud is alive: the values a previous trial left are all
\* assigned again (lines 50-51 and 136-143) before they are read.
NoCloud ==
    /\ Positions = <<>> /\ Z = <<>> /\ block = 0 /\ i = 0
    /\ sumlosses = <<>> /\ olapsim = <<>> /\ btomsim = <<>>
    /\ Area = <<>> /\ Ratio = <<>>
    /\ visits = <<>> /\ prevZ = <<>> /\ adjusted = {} /\ synced = {}

\* Lines 50-51: the random cloud of the trial, every height 1.
DrawCloud ==
    /\ opc = "draw"
    /\ Positions' \in [Particles -> PointSet]
    /\ Z' = [g \in Particles |-> 1]
    /\ block' = 1
    /\ i' = 1
    /\ opc' = "sweep"
    /\ UNCHANGED <<sumlosses, olapsim, btomsim, Area, Ratio, trial, visits, prevZ,
                   adjusted, synced, icvars>>

\* One particle of one sweep block (lines 53-132).
Visit ==
    /\ opc = "sweep"
    /\ LET r == VisitEffect(Positions, Z, i, adjusted, synced)
       IN  /\ Z' = r.Z
           /\ adjusted' = r.adjusted
           /\ synced' = r.synced
    /\ prevZ' = Z
    /\ visits' = Append(visits, i)
    /\ IF i < NParticles
       THEN /\ i' = i + 1
            /\ UNCHANGED <<block, opc>>
       ELSE /\ i' = 1
            /\ IF block < Len(SweepBlocks)
               THEN /\ block' = block + 1
                    /\ UNCHANGED opc
               ELSE /\ opc' = "account"
                    /\ UNCHANGED block
    /\ UNCHANGED <<Positions, sumlosses, olapsim, btomsim, Area, Ratio, trial, icvars>>

\* The area-loss accounting and the ratio of the trial (lines 136-180).
Account ==
    /\ opc = "account"
    /\ olapsim' = [p \in Particles |-> olapsum(Positions, Z, p)]
    /\ btomsim' = [p \in Particles |-> btomsum(Z, p)]
    /\ sumlosses' = [p \in Particles |->
                        Capped(olapsum(Positions, Z, p) + btomsum(Z, p))]
    /\ Area' = <<SumSeq(sumlosses')>>
    /\ Ratio' = <<Rat(SAtotal - Area'[1], SAtotal)>>
    /\ opc' = "done"
    /\ UNCHANGED <<Positions, Z, block, i, trial, visits, prevZ, adjusted, synced,
                   icvars>>

\* The next iteration of "for x in range(5)" (lines 39-49).
NextTrial ==
    /\ opc = "done"
    /\ trial < NTrials
    /\ trial' = trial + 1
    /\ opc' = "draw"
    /\ Positions' = <<>> /\ Z' = <<>> /\ block' = 0 /\ i' = 0
    /\ sumlosses' = <<>> /\ olapsim' = <<>> /\ btomsim' = <<>>
    /\ Area' = <<>> /\ Ratio' = <<>>
    /\ visits' = <<>> /\ prevZ' = <<>> /\ adjusted' = {} /\ synced' = {}
    /\ UNCHANGED icvars

ChargeIdle ==
    /\ parameter_string = <<>> /\ data_in = <<>> /\ string = <<>>
    /\ self = InitialSelf /\ locals = NoLocals /\ printed = <<>>
    /\ error = <<>> /\ pc = "idle"

\* The first trial is about to draw its cloud.
InitOverlap ==
    /\ NoCloud
    /\ trial = 1
    /\ opc = "draw"
    /\ ChargeIdle

NextOverlap == DrawCloud \/ Visit \/ Account \/ NextTrial

SpecOverlap == InitOverlap /\ [][NextOverlap]_vars

(***************************************************************************)
(* Claims about the overlap simulator.                                     *)
(***************************************************************************)
Resolved == opc \in {"account", "done"}
AfterVisit == opc \in {"sweep", "account", "done"} /\ visits # <<>>
Visitor == visits[Len(visits)]
PlanarSq(p, g) ==
    (Positions[p][1] - Positions[g][1]) * (Positions[p][1] - Positions[g][1])
    + (Positions[p][2] - Positions[g][2]) * (Positions[p][2] - Positions[g][2])
\* g was within the contact radius of p when p's visit began.
InContact(p, g) ==
    PlanarSq(p, g) + (prevZ[p] - prevZ[g]) * (prevZ[p] - prevZ[g]) < 35 * 35
\* The integer part of sqrt(38^2 - planar distance^2).
Rise(p, g) ==
    CHOOSE r \in 0..38 :
        r * r <= 38 * 38 - PlanarSq(p, g) /\ (r + 1) * (r + 1) > 38 * 38 - PlanarSq(p, g)
InIndexOrder(n) ==
    /\ Len(visits) = n * NParticles
    /\ \A k \in 1..Len(visits) : visits[k] = ((k - 1) % NParticles) + 1

\* C6 as claimed: when the area-loss accounting starts, the resolver has made
\* exactly 7 full sweeps over the cloud, each visiting every particle once in
\* index order.
C6_SevenSweeps == Resolved => InIndexOrder(7)

\* C6 as amended: the sweeps start from a cloud whose heights are all 1, and
\* when the area-loss accounting starts the resolver has made exactly 8 full
\* sweeps over the cloud, each visiting every particle once in index order.
C6_EightSweeps ==
    /\ (opc = "sweep" /\ visits = <<>>) => \A g \in Particles : Z[g] = 1
    /\ Resolved => InIndexOrder(8)

\* C6 witness: the accounting is about to start on a cloud the sweeps changed.
C6_Witness == opc = "account" /\ adjusted # {} /\ Len(visits) = 8 * NParticles

\* C7 as claimed: a visit of particle i adjusts only the neighbours g # i within
\* the contact radius whose height differs from that of i; a contacted
\* neighbour of equal height, a particle out of contact and i keep their height.
C7_OnlyDifferingHeightsAdjusted ==
    AfterVisit =>
        \A g \in Particles :
            Z[g] = IF g # Visitor /\ InContact(Visitor, g) /\ prevZ[g] # prevZ[Visitor]
                   THEN prevZ[Visitor] + Rise(Visitor, g)
                   ELSE prevZ[g]

\* C7 as amended: a visit of particle i adjusts every neighbour g # i within the
\* contact radius (3D distance below 35 when the visit begins), whether or not
\* its height differs from that of i: its height becomes the height of i plus
\* the integer part of sqrt(38^2 - planar_distance^2); every particle out of
\* contact and i itself keep their height.
C7_EveryContactedNeighbourAdjusted ==
    AfterVisit =>
        \A g \in Particles :
            Z[g] = IF g # Visitor /\ InContact(Visitor, g)
                   THEN prevZ[Visitor] + Rise(Visitor, g)
                   ELSE prevZ[g]

\* C7 witness: the latest visit raised a neighbour of its own height, set a
\* neighbour of another height to its height and raised it, and left a particle
\* out of contact alone.
C7_Witness ==
    /\ AfterVisit
    /\ \E g \in Particles \ {Visitor} :
           InContact(Visitor, g) /\ prevZ[g] = prevZ[Visitor] /\ Z[g] > prevZ[g]
    /\ \E g \in Particles \ {Visitor} :
           InContact(Visitor, g) /\ prevZ[g] # prevZ[Visitor]
    /\ \E g \in Particles \ {Visitor} : ~InContact(Visitor, g) /\ Z[g] = prevZ[g]

\* C8: after the accounting of a trial every per-particle loss lies in
\* [0, SApar], the total lost area in [0, SAtotal] and the coverage ratio
\* (SAtotal - lost_area) / SAtotal in [0, 1].
C8_RatioInUnitInterval ==
    opc = "done" =>
        /\ \A p \in Particles : 0 <= sumlosses[p] /\ sumlosses[p] <= SApar
        /\ 0 <= Area[1] /\ Area[1] <= SAtotal
        /\ Ratio[1][2] > 0
        /\ 0 <= Ratio[1][1] /\ Ratio[1][1] <= Ratio[1][2]
        /\ Ratio[1][1] * SAtotal = (SAtotal - Area[1]) * Ratio[1][2]

\* C8 witness: a particle whose penalties add up to more than SApar was capped.
C8_Witness ==
    /\ opc = "done"
    /\ \E p \in Particles :
           olapsim[p] + btomsim[p] > SApar /\ sumlosses[p] = SApar

\* C10: during the sweeps every height is at least 1; a visit leaves every
\* neighbour it adjusts at least 14 above the visiting particle; and after
\* resolution a particle is below the floor 5, and gets the base penalty 12,
\* exactly when no visit of any sweep adjusted it.
C10_BaseLayerIffNeverAdjusted ==
    /\ opc \in {"sweep", "account", "done"} =>
           \A g \in Particles :
               /\ Z[g] >= 1
               /\ Z[g] < 5 <=> g \notin adjusted
    /\ AfterVisit =>
           \A g \in Particles \ {Visitor} :
               (InContact(Visitor, g) \/ Z[g] # prevZ[g]) =>
                   /\ Z[g] >= prevZ[Visitor] + 14
                   /\ g \in adjusted
    /\ opc = "done" =>
           \A g \in Particles : btomsim[g] = 120 <=> g \notin adjusted

\* C10 witness: after the accounting, one particle stands exactly 14 above the
\* base layer and carries no base penalty while another was never adjusted and
\* carries it.
C10_Witness ==
    /\ opc = "done"
    /\ \E g \in Particles : g \in adjusted /\ Z[g] = 1 + 14 /\ btomsim[g] = 0
    /\ \E g \in Particles : g \notin adjusted /\ Z[g] = 1 /\ btomsim[g] = 120

====
